---- MODULE Spec2Model ----
(***************************************************************************)
(* Demand scheduling of EV cohorts (multi_bounded.py): validation of the   *)
(* hour configuration, construction of the pyomo constraint list, the      *)
(* multistart solve and the readout of the solved model.                   *)
(*                                                                         *)
(* Quantities are integers: one unit of storage and rate is one grid step  *)
(* of the reals the program works with, and prices are in units in which   *)
(* every price influence coefficient is a whole number.                    *)
(***************************************************************************)
EXTENDS Integers, Sequences, FiniteSets, TLC

\* ---------------------------------------------------------------- bounds
MaxN == 2          \* horizons N_HOURS in 1..MaxN
MaxK == 2          \* number of cohorts in EV_CONFIG, 1..MaxK
MaxS == 2          \* S_0 in 0..MaxS, S_max in 1..MaxS
MaxR == 1          \* R_max in 1..MaxR
MaxInfl == 1       \* price influence P in 0..MaxInfl
MaxBase == 2       \* base price of an hour in 1..MaxBase
MaxRestarts == 2   \* restarts of the multistart solve

VARIABLES
    N_HOURS,      \* global setting: the horizon
    EV_CONFIG,    \* global setting: sequence of cohorts [S_0, S_max, R_max, H, P]
    base_prices,  \* price signal, hour -> price
    pc,           \* position of main()
    ev,           \* index of the cohort the validation loop is at
    declared,     \* TRUE once the index sets and decision variables exist
    cons,         \* model.cons, the ConstraintList, in the order of the adds
    feasible,     \* the assignments that satisfy the model handed to the solver
    iter,         \* restarts the multistart solve has run
    status,       \* termination of the multistart solve
    sol,          \* values the model's variables hold after the solve
    retained,     \* TRUE once the solve holds a solution of some restart
    best,         \* objective value of the retained solution
    attempted,    \* objective values of the restarts that ended with a solution
    failed,       \* restarts that ended without a solution
    t,            \* hour the constraint loop is at
    report,       \* what readout computed
    exit_message, \* what SystemExit was raised with: its text and the values
                  \* formatted into it
    sweep         \* hour-by-hour enumeration of the satisfying assignments:
                  \* the hour reached, storage there, cost and energy so far

vars == <<N_HOURS, EV_CONFIG, base_prices, pc, ev, declared, cons, feasible,
          iter, status, sol, retained, best, attempted, failed, t, report,
          exit_message, sweep>>

\* ------------------------------------------------------------- helpers
Max(s) == CHOOSE x \in s : \A y \in s : y <= x

Min(s) == CHOOSE x \in s : \A y \in s : x <= y

RECURSIVE SumOver(_, _)
\* sum of f[x] over the finite set s
SumOver(f, s) ==
    IF s = {} THEN 0
    ELSE LET x == CHOOSE y \in s : TRUE IN f[x] + SumOver(f, s \ {x})

Cohorts == 0 .. (Len(EV_CONFIG) - 1)

\* EV_CONFIG[i] with the program's zero-based index
Ev(i) == EV_CONFIG[i + 1]

hours == 0 .. (N_HOURS - 1)

\* -------------------------------------------------- hour configuration
\* the condition under which main() raises SystemExit for one cohort
\* (the bound on the last hour off by one)
HoursOutOfRange_OffByOne(H) == Max(H) > N_HOURS \/ Min(H) < 0

HoursOutOfRange(H) == Max(H) >= N_HOURS \/ Min(H) < 0

\* the same check as single_bounded.py makes on its one cohort
SingleHoursOutOfRange(H) == Max(H) >= N_HOURS \/ Min(H) < 0

\* the argument of SystemExit: a literal, nothing of cohort i is formatted
\* into it
ExitMessage(i) ==
    [text |-> "Hours specified for EV (dis)charge must be between zero and N_HOURS. Modify the EV config and rerun.",
     args |-> <<>>]

\* one iteration of "for ev in EV_CONFIG": max() and min() of an empty
\* sequence raise ValueError, an out-of-range hour raises SystemExit
ValidateCohort ==
    /\ pc = "validate"
    /\ ev < Len(EV_CONFIG)
    /\ IF Ev(ev).H = {}
         THEN pc' = "ValueError" /\ ev' = ev /\ UNCHANGED exit_message
         ELSE IF HoursOutOfRange(Ev(ev).H)
                THEN pc' = "SystemExit" /\ ev' = ev
                     /\ exit_message' = ExitMessage(ev)
                ELSE pc' = "validate" /\ ev' = ev + 1
                     /\ UNCHANGED exit_message
    /\ UNCHANGED <<N_HOURS, EV_CONFIG, base_prices, declared, cons,
                   feasible, iter, status, sol, retained, best, attempted,
                   failed, t, report, sweep>>

\* the loop is over: index sets, decision variables and objective are declared
DeclareModel ==
    /\ pc = "validate"
    /\ ev = Len(EV_CONFIG)
    /\ declared' = TRUE
    /\ ev' = 0
    /\ pc' = "constrain"
    /\ UNCHANGED <<N_HOURS, EV_CONFIG, base_prices, cons, feasible, iter,
                   status, sol, retained, best, attempted, failed, t,
                   report, exit_message, sweep>>

\* ----------------------------------------------------- constraint list
\* The grid a decision variable ranges over: the declared domain of the
\* variable (S and P within NonNegativeReals, R within Reals), cut off one
\* step beyond the largest value a constraint of the configuration allows.
RCap == Max({Ev(i).R_max : i \in Cohorts}) + 1

SCap == Max({Ev(i).S_max : i \in Cohorts} \cup {Ev(i).S_0 : i \in Cohorts}) + RCap

PCap ==
    Max({base_prices[h] : h \in hours}) +
    SumOver([i \in Cohorts |-> Ev(i).P * RCap], Cohorts)

\* A decision variable is <<"S", i, t>>, <<"R", i, t>> or <<"P", 0, t>>.  A
\* constraint is lo <= body <= hi with body a linear expression, variable ->
\* coefficient; an equality has lo = hi.
SVar(i, h) == <<"S", i, h>>

RVar(i, h) == <<"R", i, h>>

PVar(h) == <<"P", 0, h>>

Constraint(lo, body, hi) == [lo |-> lo, body |-> body, hi |-> hi]

\* model.S[i, 0] == ev["S_0"]
InitialStorage(i) == Constraint(Ev(i).S_0, SVar(i, 0) :> 1, Ev(i).S_0)

\* (the boundary condition put on the last available hour itself)
FinalStorage_AtLastHour(i) ==
    Constraint(Ev(i).S_max, SVar(i, Max(Ev(i).H)) :> 1, Ev(i).S_max)

\* model.S[i, max(ev["H"]) + 1] == ev["S_max"]
FinalStorage(i) ==
    Constraint(Ev(i).S_max, SVar(i, Max(Ev(i).H) + 1) :> 1, Ev(i).S_max)

\* (the rate of an hour outside H not forced to zero)
Window_AlwaysOpen(i, h) ==
    Constraint(-Ev(i).R_max, RVar(i, h) :> 1, Ev(i).R_max)

\* (the rate of an hour inside H left without its bounds)
Window_Unbounded(i, h) ==
    IF h \notin Ev(i).H
      THEN Constraint(0, RVar(i, h) :> 1, 0)
      ELSE Constraint(-RCap, RVar(i, h) :> 1, RCap)

\* R[i, h] == 0 outside H, -R_max <= R[i, h] <= R_max inside
Window(i, h) ==
    IF h \notin Ev(i).H
      THEN Constraint(0, RVar(i, h) :> 1, 0)
      ELSE Constraint(-Ev(i).R_max, RVar(i, h) :> 1, Ev(i).R_max)

\* (storage bounded below only)
StorageBound_NoUpper(i, h) == Constraint(0, SVar(i, h) :> 1, SCap)

\* 0 <= S[i, h] <= S_max
StorageBound(i, h) == Constraint(0, SVar(i, h) :> 1, Ev(i).S_max)

\* (the update rule with the rate subtracted)
Update_Subtract(i, h) ==
    Constraint(0,
               (SVar(i, h + 1) :> 1) @@ (SVar(i, h) :> -1) @@ (RVar(i, h) :> 1),
               0)

\* S[i, h + 1] == S[i, h] + R[i, h]
Update(i, h) ==
    Constraint(0,
               (SVar(i, h + 1) :> 1) @@ (SVar(i, h) :> -1) @@ (RVar(i, h) :> -1),
               0)

\* (the price raised by the first cohort's load only)
PriceFeedback_FirstCohort(h) ==
    Constraint(base_prices[h],
               (PVar(h) :> 1) @@ (RVar(0, h) :> -Ev(0).P),
               base_prices[h])

\* P[h] == base_prices[h] + sum(ev["P"] * R[i, h])
PriceFeedback(h) ==
    Constraint(base_prices[h],
               [x \in {PVar(h)} \cup {RVar(i, h) : i \in Cohorts} |->
                   IF x = PVar(h) THEN 1 ELSE -Ev(x[2]).P],
               base_prices[h])

RECURSIVE HourlyCons(_, _)
\* the adds of the inner loop "for i, ev in enumerate(EV_CONFIG)" at hour h,
\* from cohort i on
HourlyCons(h, i) ==
    IF i >= Len(EV_CONFIG) THEN <<>>
    ELSE <<Window(i, h), StorageBound(i, h), Update(i, h)>> \o HourlyCons(h, i + 1)

\* first loop of the constraints: the two boundary conditions of cohort ev
AddBoundary ==
    /\ pc = "constrain"
    /\ ev < Len(EV_CONFIG)
    /\ cons' = cons \o <<InitialStorage(ev), FinalStorage(ev)>>
    /\ ev' = ev + 1
    /\ UNCHANGED <<N_HOURS, EV_CONFIG, base_prices, pc, declared, feasible,
                   iter, status, sol, retained, best, attempted, failed, t,
                   report, exit_message, sweep>>

\* second loop: every cohort's constraints at hour t, then the price equation
AddHourly ==
    /\ pc = "constrain"
    /\ ev = Len(EV_CONFIG)
    /\ t < N_HOURS
    /\ cons' = cons \o HourlyCons(t, 0) \o <<PriceFeedback(t)>>
    /\ t' = t + 1
    /\ UNCHANGED <<N_HOURS, EV_CONFIG, base_prices, pc, ev, declared,
                   feasible, iter, status, sol, retained, best, attempted,
                   failed, report, exit_message, sweep>>

\* --------------------------------------------------------------- solver
Domain(x) ==
    IF x[1] = "R" THEN (-RCap) .. RCap
    ELSE IF x[1] = "S" THEN 0 .. SCap
    ELSE 0 .. PCap

RECURSIVE CohortVars(_, _)
CohortVars(h, i) ==
    IF i >= Len(EV_CONFIG) THEN <<>>
    ELSE <<SVar(i, h), RVar(i, h)>> \o CohortVars(h, i + 1)

RECURSIVE LastVars(_)
LastVars(i) ==
    IF i >= Len(EV_CONFIG) THEN <<>> ELSE <<SVar(i, N_HOURS)>> \o LastVars(i + 1)

RECURSIVE VarOrder(_)
\* every decision variable of the model once: S[i, h], R[i, h] and P[h] hour
\* by hour, then S[i, N_HOURS]
VarOrder(h) ==
    IF h >= N_HOURS THEN LastVars(0)
    ELSE CohortVars(h, 0) \o <<PVar(h)>> \o VarOrder(h + 1)

\* value of a linear expression under the assignment a
Value(body, a) == SumOver([x \in DOMAIN body |-> body[x] * a[x]], DOMAIN body)

Holds(c, a) == c.lo <= Value(c.body, a) /\ Value(c.body, a) <= c.hi

\* the constraints that mention x and no variable a leaves open hold under a
Consistent(a, x) ==
    \A k \in 1 .. Len(cons) :
        (x \in DOMAIN cons[k].body /\ DOMAIN cons[k].body \subseteq DOMAIN a)
            => Holds(cons[k], a)

RECURSIVE Extend(_, _, _)
\* the assignments of order[1..Len(order)] that extend one of partials and
\* satisfy every constraint
Extend(partials, order, k) ==
    IF k > Len(order) THEN partials
    ELSE LET x == order[k]
             next == UNION {{a @@ (x :> v) :
                               v \in {w \in Domain(x) : Consistent(a @@ (x :> w), x)}} :
                            a \in partials}
         IN Extend(next, order, k + 1)

\* every assignment of the decision variables that satisfies model.cons
Feasible == Extend({<<>>}, VarOrder(0), 1)

\* the objective: sum over cohorts and hours of P[t] * R[i, t]
Cost(a) ==
    SumOver([x \in Cohorts \X hours |-> a[PVar(x[2])] * a[RVar(x[1], x[2])]],
            Cohorts \X hours)

\* (every restart's solution replaces the one held)
Retain_Last(c) == TRUE

\* whether the multistart solve keeps a restart's solution of objective c
Retain(c) == ~retained \/ c < best

\* the model is complete: main() hands it to the multistart solver, whose
\* restarts all work on the same constraints
StartSolve ==
    /\ pc = "constrain"
    /\ ev = Len(EV_CONFIG)
    /\ t = N_HOURS
    /\ feasible' = Feasible
    /\ pc' = "solve"
    /\ UNCHANGED <<N_HOURS, EV_CONFIG, base_prices, ev, t, declared, cons,
                   iter, status, sol, retained, best, attempted, failed,
                   report, exit_message, sweep>>

\* a restart converges: the solver reports optimal with a feasible assignment
RestartOptimal ==
    /\ pc = "solve"
    /\ iter < MaxRestarts
    /\ \E a \in feasible :
          /\ IF Retain(Cost(a))
               THEN sol' = a /\ best' = Cost(a) /\ retained' = TRUE
               ELSE UNCHANGED <<sol, best, retained>>
          /\ attempted' = attempted \cup {Cost(a)}
    /\ iter' = iter + 1
    /\ UNCHANGED <<N_HOURS, EV_CONFIG, base_prices, pc, ev, t, declared,
                   cons, feasible, status, failed, report, exit_message,
                   sweep>>

\* a restart reports infeasible: no assignment satisfies the constraints
RestartInfeasible ==
    /\ pc = "solve"
    /\ iter < MaxRestarts
    /\ feasible = {}
    /\ iter' = iter + 1
    /\ failed' = failed + 1
    /\ UNCHANGED <<N_HOURS, EV_CONFIG, base_prices, pc, ev, t, declared,
                   cons, feasible, status, sol, retained, best, attempted,
                   report, exit_message, sweep>>

\* a restart does not converge, reports unbounded or ends in a solver error
RestartError ==
    /\ pc = "solve"
    /\ iter < MaxRestarts
    /\ iter' = iter + 1
    /\ failed' = failed + 1
    /\ UNCHANGED <<N_HOURS, EV_CONFIG, base_prices, pc, ev, t, declared,
                   cons, feasible, status, sol, retained, best, attempted,
                   report, exit_message, sweep>>

\* solve() returns to main(), which goes on to readout(model, base_prices)
\* whatever the returned results say
SolveReturns ==
    /\ pc = "solve"
    /\ iter >= 1
    /\ status' = IF ~retained THEN "NoFeasibleSolution" ELSE "ok"
    /\ pc' = "readout"
    /\ UNCHANGED <<N_HOURS, EV_CONFIG, base_prices, ev, t, declared, cons,
                   feasible, iter, sol, retained, best, attempted, failed,
                   report, exit_message, sweep>>

\* -------------------------------------------------------------- readout
\* numpy's true division of floats: x / 0 is nan, inf or -inf (with a
\* RuntimeWarning), any other quotient is the fraction num / den
NpDivide(x, y) ==
    IF y = 0
      THEN (IF x = 0 THEN "nan" ELSE IF x > 0 THEN "inf" ELSE "-inf")
      ELSE [num |-> x, den |-> y]

\* R_sol.sum(axis=1)[i]
RateSum(a, i) == SumOver([h \in hours |-> a[RVar(i, h)]], hours)

\* costs.sum(axis=1)[i]
EvTotCost(a, i) == SumOver([h \in hours |-> a[RVar(i, h)] * a[PVar(h)]], hours)

\* sum(sum(R_sol))
TotalRate(a) == SumOver([i \in Cohorts |-> RateSum(a, i)], Cohorts)

Readout ==
    /\ pc = "readout"
    /\ IF ~retained
         THEN \* no restart left a solution: the variables hold None, on which
              \* the products of line 114 raise TypeError, or the last iterate
              \* of the failed solver, which is printed as if it were a schedule
              /\ \/ pc' = "TypeError"
                 \/ pc' = "done"
              /\ UNCHANGED report
         ELSE /\ report' =
                  [ev_tot_cost |-> [i \in Cohorts |-> EvTotCost(sol, i)],
                   ev_avg_price |-> [i \in Cohorts |->
                                        NpDivide(EvTotCost(sol, i), RateSum(sol, i))],
                   overall |-> Cost(sol),
                   overall_avg |-> NpDivide(Cost(sol), TotalRate(sol))]
              /\ pc' = "done"
    /\ UNCHANGED <<N_HOURS, EV_CONFIG, base_prices, ev, t, declared, cons,
                   feasible, iter, status, sol, retained, best, attempted,
                   failed, exit_message, sweep>>

\* -------------------------------------------------------- specification
CohortConfigs(n) ==
    [S_0 : 0 .. MaxS, S_max : 1 .. MaxS, R_max : 1 .. MaxR,
     H : SUBSET ((-1) .. n), P : 0 .. MaxInfl]

\* the global settings and the price signal
Settings ==
    /\ N_HOURS \in 1 .. MaxN
    /\ \E k \in 1 .. MaxK : EV_CONFIG \in [1 .. k -> CohortConfigs(N_HOURS)]
    /\ base_prices \in [0 .. (N_HOURS - 1) -> 1 .. MaxBase]

\* main() is entered
Entered ==
    /\ pc = "validate"
    /\ ev = 0
    /\ t = 0
    /\ declared = FALSE
    /\ cons = <<>>
    /\ feasible = {}
    /\ iter = 0
    /\ status = "unsolved"
    /\ sol = <<>>
    /\ retained = FALSE
    /\ best = 0
    /\ attempted = {}
    /\ failed = 0
    /\ report = <<>>
    /\ exit_message = [text |-> "", args |-> <<>>]
    /\ sweep = [h |-> 0, last |-> <<>>, spent |-> 0, charged |-> 0]

Init == Settings /\ Entered

Next ==
    \/ ValidateCohort
    \/ DeclareModel
    \/ AddBoundary
    \/ AddHourly
    \/ StartSolve
    \/ RestartOptimal
    \/ RestartInfeasible
    \/ RestartError
    \/ SolveReturns
    \/ Readout

Spec == Init /\ [][Next]_vars

\* ---------------------------------------------- hour-by-hour feasibility
\* The assignments that satisfy model.cons, walked in VarOrder one hour at a
\* time: only the variables of the hour before are kept, together with the
\* part of the objective and the energy charged so far.

\* the settings of main.py
ScenarioHours == 24

ScenarioConfig ==
    <<[S_0 |-> 0, S_max |-> 10, R_max |-> 1, H |-> 0 .. (ScenarioHours - 1), P |-> 0]>>

ScenarioA ==
    /\ N_HOURS = ScenarioHours
    /\ EV_CONFIG = ScenarioConfig
    /\ base_prices = [h \in 0 .. (ScenarioHours - 1) |-> 1]

\* (only energy charged is paid for, energy discharged earns nothing)
HourCost_ChargingOnly(a, h) ==
    SumOver([i \in Cohorts |-> a[PVar(h)] * Max({a[RVar(i, h)], 0})], Cohorts)

\* the summand of the objective for hour h: sum over cohorts of P[t] * R[i, t]
HourCost(a, h) ==
    SumOver([i \in Cohorts |-> a[PVar(h)] * a[RVar(i, h)]], Cohorts)

\* the energy the cohorts take up in hour h
HourRate(a, h) == SumOver([i \in Cohorts |-> a[RVar(i, h)]], Cohorts)

\* the variables of hour h in VarOrder
HourOrder(h) ==
    IF h >= N_HOURS THEN LastVars(0) ELSE CohortVars(h, 0) \o <<PVar(h)>>

\* the part of the assignment a on the variables of hour h
AtHour(a, h) == [x \in {y \in DOMAIN a : y[3] = h} |-> a[x]]

SweepStart ==
    /\ pc = "constrain"
    /\ ev = Len(EV_CONFIG)
    /\ t = N_HOURS
    /\ pc' = "sweep"
    /\ sweep' = [h |-> 0, last |-> <<>>, spent |-> 0, charged |-> 0]
    /\ UNCHANGED <<N_HOURS, EV_CONFIG, base_prices, ev, t, declared, cons,
                   feasible, iter, status, sol, retained, best, attempted,
                   failed, report, exit_message>>

\* the variables of one hour take values that satisfy every constraint
\* among them and the variables of the hour before
SweepHour ==
    /\ pc = "sweep"
    /\ sweep.h < N_HOURS
    /\ \E a \in Extend({sweep.last}, HourOrder(sweep.h), 1) :
           sweep' = [h |-> sweep.h + 1,
                     last |-> AtHour(a, sweep.h),
                     spent |-> sweep.spent + HourCost(a, sweep.h),
                     charged |-> sweep.charged + HourRate(a, sweep.h)]
    /\ UNCHANGED <<N_HOURS, EV_CONFIG, base_prices, pc, ev, t, declared, cons,
                   feasible, iter, status, sol, retained, best, attempted,
                   failed, report, exit_message>>

\* the storage after the last hour satisfies its constraints: the assignment
\* is feasible
SweepEnd ==
    /\ pc = "sweep"
    /\ sweep.h = N_HOURS
    /\ \E a \in Extend({sweep.last}, HourOrder(sweep.h), 1) :
           sweep' = [sweep EXCEPT !.last = AtHour(a, sweep.h)]
    /\ pc' = "swept"
    /\ UNCHANGED <<N_HOURS, EV_CONFIG, base_prices, ev, t, declared, cons,
                   feasible, iter, status, sol, retained, best, attempted,
                   failed, report, exit_message>>

InitSweep == (Settings \/ ScenarioA) /\ Entered

NextSweep ==
    \/ ValidateCohort
    \/ DeclareModel
    \/ AddBoundary
    \/ AddHourly
    \/ SweepStart
    \/ SweepHour
    \/ SweepEnd

SpecSweep == InitSweep /\ [][NextSweep]_vars

\* --------------------------------------------------------------- claims
AllNonEmpty == \A i \in Cohorts : Ev(i).H # {}

\* some availability entry lies outside [0, N_HOURS)
SomeEntryOutOfRange ==
    \E i \in Cohorts : \E h \in Ev(i).H : h < 0 \/ h >= N_HOURS

Validated == pc \notin {"validate", "SystemExit", "ValueError"}

\* C1 (as stated): for every list of cohorts with finite availability sets,
\* validation fails with InvalidConfiguration (SystemExit) exactly when some
\* availability entry is outside [0, N_HOURS) and succeeds otherwise.
C1_AsStated ==
    /\ pc # "ValueError"
    /\ pc = "SystemExit" => SomeEntryOutOfRange
    /\ Validated => ~SomeEntryOutOfRange

\* C1 (amended): when every cohort's availability is non-empty, validation
\* fails with SystemExit exactly when some availability entry is outside
\* [0, N_HOURS) and succeeds otherwise, and the test of max and min alone,
\* in multi_bounded.py and in single_bounded.py, decides as a test of every
\* entry does.
C1_Validation ==
    AllNonEmpty =>
        /\ pc # "ValueError"
        /\ pc = "SystemExit" => SomeEntryOutOfRange
        /\ Validated => ~SomeEntryOutOfRange
        /\ \A i \in Cohorts :
              LET every == \E h \in Ev(i).H : h < 0 \/ h >= N_HOURS
              IN  /\ HoursOutOfRange(Ev(i).H) <=> every
                  /\ SingleHoursOutOfRange(Ev(i).H) <=> every

\* the second of two cohorts, with an hour inside and an hour outside the
\* horizon, is rejected
C1_Witness ==
    /\ pc = "SystemExit"
    /\ AllNonEmpty
    /\ ev = 1
    /\ \E h \in Ev(1).H : h >= N_HOURS
    /\ \E h \in Ev(1).H : h \in hours

\* C2: in every assignment that satisfies the constraint list, storage of
\* every cohort lies in [0, S_max] at every index 0..N_HOURS, the terminal
\* index N_HOURS and the hours outside the availability included.
C2_StorageBounds ==
    \A a \in feasible : \A i \in Cohorts : \A h \in 0 .. N_HOURS :
        0 <= a[SVar(i, h)] /\ a[SVar(i, h)] <= Ev(i).S_max

\* a satisfying assignment of a cohort that is offline in the last hour and
\* charges before it
C2_Witness ==
    \E a \in feasible : \E i \in Cohorts :
        /\ (N_HOURS - 1) \notin Ev(i).H
        /\ a[SVar(i, N_HOURS)] = Ev(i).S_max
        /\ a[SVar(i, 0)] < Ev(i).S_max

\* C3: in every satisfying assignment, storage starts at S_0 and equals S_max
\* one hour after the cohort's own last available hour.
C3_Boundary ==
    \A a \in feasible : \A i \in Cohorts :
        /\ a[SVar(i, 0)] = Ev(i).S_0
        /\ a[SVar(i, Max(Ev(i).H) + 1)] = Ev(i).S_max

\* a cohort whose last available hour is before the last hour of the horizon
\* and which has to charge
C3_Witness ==
    \E a \in feasible : \E i \in Cohorts :
        /\ Max(Ev(i).H) + 1 < N_HOURS
        /\ Ev(i).S_0 < Ev(i).S_max

\* C4: in every satisfying assignment the rate is 0 in an hour outside the
\* availability and within [-R_max, R_max] in an hour inside it.
C4_Window ==
    \A a \in feasible : \A i \in Cohorts : \A h \in hours :
        IF h \notin Ev(i).H
          THEN a[RVar(i, h)] = 0
          ELSE -Ev(i).R_max <= a[RVar(i, h)] /\ a[RVar(i, h)] <= Ev(i).R_max

\* a cohort that is offline in one hour and charges at its full rate in
\* another, beside a cohort that discharges at full rate where it is online
C4_Witness ==
    \E a \in feasible : \E i, j \in Cohorts :
        /\ \E h \in hours : h \notin Ev(i).H
        /\ \E h \in Ev(i).H : a[RVar(i, h)] = Ev(i).R_max
        /\ \E h \in Ev(j).H : a[RVar(j, h)] = -Ev(j).R_max

C6_PriceFeedback ==
    \A a \in feasible : \A h \in hours :
        /\ a[PVar(h)] =
              base_prices[h] +
              SumOver([i \in Cohorts |-> Ev(i).P * a[RVar(i, h)]], Cohorts)
        /\ (\A i \in Cohorts : Ev(i).P = 0) => a[PVar(h)] = base_prices[h]

\* two cohorts with positive price influence charge in the same hour
C6_Witness ==
    \E a \in feasible : \E h \in hours :
        /\ Len(EV_CONFIG) = 2
        /\ \A i \in Cohorts : Ev(i).P > 0 /\ a[RVar(i, h)] > 0
        /\ a[PVar(h)] > base_prices[h] + 1

\* a cohort cannot take up S_max - S_0 in its available hours at R_max
Starved ==
    \E i \in Cohorts :
        Ev(i).R_max * Cardinality(Ev(i).H) < Ev(i).S_max - Ev(i).S_0

C8_NotDominated ==
    retained =>
        /\ sol \in feasible
        /\ best = Cost(sol)
        /\ \A c \in attempted : best <= c

\* the solve returned after a restart that was worse than the retained one
C8_Witness ==
    /\ pc = "readout"
    /\ retained
    /\ \E c \in attempted : best < c

\* C9: a failed restart is skipped, the solve fails with NoFeasibleSolution
\* exactly when every restart failed, and a failed solve passes no result on
\* to the readout.
C9_AsStated ==
    /\ (pc = "solve" /\ iter < MaxRestarts /\ failed > 0) => ENABLED RestartError
    /\ pc \in {"readout", "TypeError", "done"} =>
          /\ status = "NoFeasibleSolution" <=> failed = iter
          /\ status # "NoFeasibleSolution"

\* C10: the readout's average price of a cohort is its total cost divided by
\* the sum of its rates, and for a cohort whose rates sum to zero the readout
\* fails with DivisionUndefined.
C10_AsStated ==
    (pc = "done" /\ retained) =>
        \A i \in Cohorts :
            IF RateSum(sol, i) = 0
              THEN report.ev_avg_price[i] = "DivisionUndefined"
              ELSE report.ev_avg_price[i] =
                       [num |-> EvTotCost(sol, i), den |-> RateSum(sol, i)]

\* the values formatted into the SystemExit message
Named == {exit_message.args[k] : k \in DOMAIN exit_message.args}

\* nothing of the model beyond the empty ConcreteModel exists
NothingBuilt == ~declared /\ cons = <<>>

\* C11: when validation rejects a configuration the failure identifies the
\* cohort with the out-of-range availability, and it is raised before any
\* decision variable or constraint of the model is built.
C11_AsStated ==
    pc = "SystemExit" => (ev \in Named /\ NothingBuilt)

\* every price influence coefficient is zero and the base price is flat
FlatPrices ==
    /\ \A i \in Cohorts : Ev(i).P = 0
    /\ \A h \in hours : base_prices[h] = base_prices[0]

\* the energy the cohorts lack at the start
Lacking == SumOver([i \in Cohorts |-> Ev(i).S_max - Ev(i).S_0], Cohorts)

\* C12: with every price influence zero and a flat base price c, every
\* assignment that satisfies the constraints of the model costs the same,
\* c times the sum over cohorts of (S_max - S_0); in the configuration of
\* main.py (24 hours, one cohort from 0 to 10 at rate 1, available in every
\* hour, c = 1) every feasible schedule charges 10 in total and costs 10.
C12_FlatCost ==
    /\ (pc = "swept" /\ FlatPrices) =>
           /\ sweep.charged = Lacking
           /\ sweep.spent = base_prices[0] * Lacking
    /\ (pc = "swept" /\ N_HOURS = ScenarioHours) =>
           (sweep.charged = 10 /\ sweep.spent = 10)

\* a feasible schedule of the main.py configuration has been walked to the
\* end: the cohort is full after the last hour
C12_Witness ==
    /\ pc = "swept"
    /\ N_HOURS = ScenarioHours
    /\ EV_CONFIG = ScenarioConfig
    /\ sweep.last[SVar(0, ScenarioHours)] = 10
    /\ sweep.charged = 10

====
